---- MODULE Spec2Model ----
(***************************************************************************)
(* Model of all-csp.py: the script that creates Wiz projects from          *)
(* subscription tags and assigns the tagged subscriptions to them.         *)
(*                                                                         *)
(* The state is the backend (projects with their cloudAccountLinks, the    *)
(* tagged subscriptions, how the backend pages and truncates its answers)  *)
(* and one process running main(): its position, its local variables and   *)
(* what it has printed and sent so far.  Strings that the script           *)
(* concatenates or searches (project names) are sequences of tokens, so    *)
(* that prefix + tag_value and the backend's substring search are          *)
(* computed, not assumed.                                                  *)
(***************************************************************************)
EXTENDS Integers, Sequences, FiniteSets, TLC

VARIABLES
    projects,        \* backend: sequence of projects [id, name, cloudAccountLinks]
    subscriptions,   \* backend: sequence of subscription entities carrying tag_key
    pageCap,         \* backend: most nodes it puts in one graphSearch page
    bulk,            \* backend: number of further projects, named like BulkName,
                     \*          that the projects search sorts ahead of every other match
    argv,            \* sys.argv[1:] of the current run
    runNo,           \* number of the current run of the script
    pc,              \* position of main()
    authorized,      \* HEADERS carries "Authorization"
    subs_nodes,      \* main: value returned by get_subs_with_tag_key()
    project_nodes,   \* main: value returned by get_all_wiz_projects()
    result,          \* fetcher: the last page answer
    nodes,           \* fetcher: the accumulated nodes
    tag_values,      \* main: tag values of the first loop not yet visited
    subs_list,       \* main: the list the second loop iterates
    idx,             \* main: position of the second loop in subs_list
    console,         \* lines printed by the current run
    mutations,       \* mutation requests sent by the current run
    requests,        \* requests sent by the fetcher that ran last
    responses,       \* page answers received by the fetcher that ran last
    resolverQueries, \* number of ProjectsTable queries sent by the current run
    failures,        \* number of backend calls that failed so far
    startProjects,   \* value of projects when the current run started
    lastAdd,         \* the last call of add_sub_to_project of the current run
    prev,            \* summary of the previous run
    failedMutation,  \* the first mutation of the current run that was not answered "ok"
    environ,         \* what config_parser reads: the config file and os.environ
    config,          \* what config_parser returned: the four WIZ_ settings
    call,            \* a helper called on its own: its name and its arguments
    returned         \* what that call returned

vars == <<projects, subscriptions, pageCap, bulk, argv, runNo, pc, authorized,
          subs_nodes, project_nodes, result, nodes, tag_values, subs_list, idx,
          console, mutations, requests, responses, resolverQueries, failures,
          startProjects, lastAdd, prev, failedMutation, environ, config, call,
          returned>>

backendVars == <<subscriptions, pageCap, bulk>>
runVars == <<projects, subscriptions, pageCap, bulk, argv, runNo, authorized,
             subs_nodes, project_nodes, result, nodes, tag_values, subs_list, idx,
             console, mutations, requests, responses, resolverQueries, failures,
             startProjects, lastAdd, prev, failedMutation>>
startupVars == <<environ, config>>
callVars == <<call, returned>>

(***************************************************************************)
(* Bounds of the model.                                                    *)
(***************************************************************************)
MaxSubs == 2        \* tagged subscriptions in the backend
MaxPageCap == 2     \* nodes per graphSearch page
MaxFailures == 1    \* backend calls that fail, over all runs
MaxRuns == 2        \* runs of the script, one after the other
MaxRaw == 3         \* results of one projects search handed to the resolver's filter
MaxEntities == 3    \* entities handed to get_subs_tag_value called on its own
MaxArgs == 3        \* words on the command line of the first run

(***************************************************************************)
(* Script settings and constants of the queries.                           *)
(***************************************************************************)
tag_key == "team"
project_name_prefix == <<"team-">>
SubsFirst == 100
ProjectsFirst == 100
ResolverFirst == 500

TagValues == {<<"alpha">>, <<"beta">>}
NoCursor == <<>>
ForeignAccount == "s0"

Min(a, b) == IF a < b THEN a ELSE b
Max(a, b) == IF a > b THEN a ELSE b

\* s contains sub as a contiguous part (the search of the projects query)
Contains(s, sub) ==
    \E i \in 0..(Len(s) - Len(sub)) : SubSeq(s, i + 1, i + Len(sub)) = sub

RECURSIVE Flatten(_)
Flatten(pages) ==
    IF pages = <<>> THEN <<>> ELSE Head(pages) \o Flatten(Tail(pages))

(***************************************************************************)
(* Python values: a function of the script returns a value or, through     *)
(* the exception handler, the exception object itself.                     *)
(***************************************************************************)
Ret(v) == [isErr |-> FALSE, v |-> v]
ErrVal == [isErr |-> TRUE, v |-> <<>>]

(***************************************************************************)
(* The backend's data.                                                     *)
(***************************************************************************)
SubIds == <<"s1", "s2", "s3", "s4">>
SubNames == <<"sub1", "sub2", "sub3", "sub4">>

SubEntity(i, tv) ==
    [id |-> SubIds[i], name |-> SubNames[i], type |-> "SUBSCRIPTION",
     properties |-> [tags |-> (tag_key :> tv)]]

Node(e) == [entities |-> <<e>>]

\* a link as the projects query reports it
Link(acct, env, shared) ==
    [cloudAccount |-> [id |-> acct], environment |-> env, shared |-> shared]

Proj(name, links) ==
    [id |-> <<"id:">> \o name, name |-> name, cloudAccountLinks |-> links]

AlphaName == project_name_prefix \o <<"alpha">>
BetaName == project_name_prefix \o <<"beta">>

\* the further projects are named AlphaName followed by a suffix of their own
BulkName == AlphaName \o <<"#">>

InitialAlpha ==
    { <<>>,
      <<Proj(AlphaName, <<Link(ForeignAccount, "DEVELOPMENT", TRUE)>>)>>,
      <<Proj(AlphaName, <<Link("s1", "DEVELOPMENT", TRUE),
                          Link(ForeignAccount, "PRODUCTION", FALSE)>>)>> }
InitialBeta == { <<>>, <<Proj(BetaName, <<>>)>> }
InitialOther ==
    { <<>>,
      <<Proj(AlphaName \o <<"bet">>, <<Link(ForeignAccount, "STAGING", FALSE)>>)>> }
\* the project whose name only contains AlphaName comes with no project
\* named AlphaName or with the one that has two links
InitialProjects ==
    { a \o b : a \in InitialAlpha, b \in InitialBeta }
    \cup { o \o a : o \in InitialOther,
                      a \in { x \in InitialAlpha : x = <<>> \/ Len(x[1].cloudAccountLinks) = 2 } }

InitialSubscriptions ==
    UNION { { [i \in 1..n |-> Node(SubEntity(i, t[i]))] : t \in [1..n -> TagValues] }
            : n \in 0..MaxSubs }

\* an entity the backend returns although it does not carry tag_key
UntaggedEntity(i) ==
    [id |-> SubIds[i], name |-> SubNames[i], type |-> "SUBSCRIPTION",
     properties |-> [tags |-> ("owner" :> <<"ops">>)]]

\* answers of a backend whose filter lets such entities through
SubscriptionsAnyTags ==
    UNION { { [i \in 1..n |-> Node(IF t[i] = <<>> THEN UntaggedEntity(i)
                                   ELSE SubEntity(i, t[i]))]
              : t \in [1..n -> TagValues \cup {<<>>}] }
            : n \in 0..MaxSubs }

\* the PROJECT entities of the graph, as the graphSearch query selects them
ProjectNodes ==
    [i \in 1..Len(projects) |->
        Node([id |-> projects[i].id, name |-> projects[i].name])]

(***************************************************************************)
(* The backend's answers.                                                  *)
(***************************************************************************)
Offset(after) == IF after = NoCursor THEN 0 ELSE after[1]

\* graphSearch: the page that follows the cursor `after`
graphSearch(data, after, first) ==
    LET from == Offset(after)
        n == Min(Min(first, pageCap), Len(data) - from)
    IN [nodes |-> SubSeq(data, from + 1, from + n),
        pageInfo |-> [endCursor |-> <<from + n>>,
                      hasNextPage |-> from + n < Len(data)]]

\* the pages the backend holds for data
RECURSIVE PagesFrom(_, _, _)
PagesFrom(data, after, first) ==
    LET page == graphSearch(data, after, first)
    IN IF page.pageInfo.hasNextPage
       THEN <<page>> \o PagesFrom(data, page.pageInfo.endCursor, first)
       ELSE <<page>>

\* number of the further projects whose name contains search; they are kept
\* as a count: none of them is named like a project of a tag value, so the
\* graphSearch snapshot and the exact-name filter never pick one of them
BulkMatches(search) ==
    IF Contains(BulkName, search) THEN bulk ELSE 0

\* projects(filterBy: {search}, first): the nodes of the single page asked for;
\* the further projects come first in the backend's order and none of them is
\* named search, so only the room they leave is listed
projectsTable(search, first) ==
    LET matches == SelectSeq(projects, LAMBDA p : Contains(p.name, search))
        room == Max(0, first - BulkMatches(search))
    IN SubSeq(matches, 1, Min(room, Len(matches)))

\* createProject: names are unique in the backend
createProject(ps, name) ==
    IF \E i \in 1..Len(ps) : ps[i].name = name
    THEN ps
    ELSE Append(ps, Proj(name, <<>>))

\* updateProject with patch.cloudAccountLinks: replaces the whole list
updateProject(ps, id, links) ==
    [i \in 1..Len(ps) |->
        IF ps[i].id = id
        THEN [ps[i] EXCEPT !.cloudAccountLinks =
                 [j \in 1..Len(links) |->
                     Link(links[j].cloudAccount, links[j].environment,
                          links[j].shared)]]
        ELSE ps[i]]

\* what a call can meet (a mutation that is not answered "ok" is not
\* applied): "ok", a JSON answer carrying errors and no data, a
\* transport exception, one whose text names a 502/503/504, the access-denied
\* marker in the body, a body that is not JSON
FailAnswers == {"errors", "transport", "gateway", "denied", "invalidJson"}

\* Python's None, and `not x` for a string or None
None == "None"
Blank(x) == x \in {None, ""}

\* requests.post on a url without a scheme ("" or None) raises MissingSchema,
\* a ValueError, before anything is sent: "invalidUrl"
Answers(f) ==
    IF Blank(config.wiz_api_url) THEN {"invalidUrl"}
    ELSE IF ~authorized THEN {"errors"}
    ELSE {"ok"} \cup (IF f < MaxFailures THEN FailAnswers ELSE {})
Cost(ans) == IF ans \in {"ok", "invalidUrl"} \/ ~authorized THEN 0 ELSE 1

(***************************************************************************)
(* Helpers of the script.                                                  *)
(***************************************************************************)
\* what the decorated function hands to its caller when its body raises
generic_exception_handler(exc) ==
    IF exc = "ValueError" THEN "exit"
    ELSE IF exc = "Exception502" THEN "exit"
    ELSE "err"

\* "data": the JSON answer; "errors": a JSON answer without data;
\* "err": the exception object; "exit": sys.exit(1)
query_wiz_api(ans) ==
    CASE ans = "ok" -> "data"
      [] ans = "errors" -> "errors"
      [] ans = "invalidJson" -> generic_exception_handler("ValueError")
      [] ans = "invalidUrl" -> generic_exception_handler("ValueError")
      [] ans = "gateway" -> generic_exception_handler("Exception502")
      [] OTHER -> generic_exception_handler("Exception")

\* a fetcher reads result['data'] of what query_wiz_api returned
FetcherReads(r) ==
    CASE r = "data" -> "data"
      [] r = "exit" -> "exit"
      [] OTHER -> generic_exception_handler("Exception")

dryable_set(args) ==
    (\E i \in 1..Len(args) : args[i] = "--dry-run")
    /\ (\E i \in 1..Len(args) : args[i] = "yes")

ArgvForms == { <<"--dry-run", "yes">>, <<"--dry-run", "no">> }

\* the words a command line is made of; "--dry-run=yes" is one word of sys.argv
Words == {"--dry-run", "yes", "no", "--dry-run=yes", "--dry-run=no"}
choices == {"yes", "no"}

\* argparse splits a word that starts with the option string at its "="
Explicit(word) ==
    CASE word = "--dry-run=yes" -> <<"yes">>
      [] word = "--dry-run=no" -> <<"no">>
      [] OTHER -> <<>>

Namespace(value) == [accepted |-> TRUE, dry_run |-> value]
Rejected == [accepted |-> FALSE, dry_run |-> ""]

\* parser.parse_args() from word i on, value being what the option holds so
\* far: the option takes one argument of choices, either the next word or the
\* part after "="; the last occurrence wins; a word that is neither is an
\* unrecognized argument and the parser exits
RECURSIVE parse_from(_, _, _)
parse_from(args, i, value) ==
    IF i > Len(args) THEN Namespace(value)
    ELSE IF Explicit(args[i]) # <<>>
         THEN parse_from(args, i + 1, Explicit(args[i])[1])
    ELSE IF args[i] = "--dry-run" /\ i < Len(args) /\ args[i + 1] \in choices
         THEN parse_from(args, i + 2, args[i + 1])
    ELSE Rejected

\* args = parser.parse_args(), default='no'
parse_args(args) == parse_from(args, 1, "no")

\* the command lines of at most MaxArgs words that the parser accepts
CommandLines ==
    { a \in UNION { [1..k -> Words] : k \in 0..MaxArgs } : parse_args(a).accepted }

(***************************************************************************)
(* Initial state: main() is about to start, on any backend of the bounds.  *)
(***************************************************************************)
NoResult == [nodes |-> <<>>, pageInfo |-> [endCursor |-> NoCursor, hasNextPage |-> FALSE]]
NoAdd == [called |-> FALSE, sub_id |-> "", project_id |-> <<>>, resolved |-> <<>>,
          payload |-> <<>>]
NoRun == [ran |-> FALSE, dry |-> FALSE, clean |-> FALSE, console |-> <<>>,
          failures |-> 0, mutations |-> <<>>]

(***************************************************************************)
(* config_parser: the settings come from the config file, then from the    *)
(* environment variables.                                                  *)
(***************************************************************************)
WIZ_AUTH_ENDPOINTS == {"https://auth.app.wiz.io/oauth/token", "https://auth.wiz.io/oauth/token"}

Settings(api, id, secret, auth) ==
    [wiz_api_url |-> api, wiz_client_id |-> id, wiz_client_secret |-> secret,
     wiz_auth_url |-> auth]

\* the config file: absent, or the str() of its four values
NoFile == [found |-> FALSE, values |-> Settings("", "", "", "")]
ConfigFile(api, id, secret, auth) == [found |-> TRUE, values |-> Settings(api, id, secret, auth)]

\* os.getenv of the four variables (None when unset)
Environment(api, id, secret, auth) == Settings(api, id, secret, auth)

\* [exited, v]: sys.exit, or the tuple returned
config_parser(env) ==
    LET file == env.file.values
        os == env.os
        from_file == IF env.file.found THEN file ELSE Settings("", "", "", "")
        any_set == ~Blank(os.wiz_client_id) \/ ~Blank(os.wiz_client_secret)
                   \/ ~Blank(os.wiz_api_url)
        auth == IF os.wiz_auth_url \in WIZ_AUTH_ENDPOINTS
                THEN os.wiz_auth_url ELSE from_file.wiz_auth_url
    IN IF env.file.found /\ (Blank(file.wiz_client_id) \/ Blank(file.wiz_client_secret))
       THEN [exited |-> TRUE, v |-> Settings("", "", "", "")]
       ELSE [exited |-> FALSE,
             v |-> IF any_set
                   THEN Settings(os.wiz_api_url, os.wiz_client_id,
                                 os.wiz_client_secret, auth)
                   ELSE Settings(from_file.wiz_api_url, from_file.wiz_client_id,
                                 from_file.wiz_client_secret, auth)]

\* a config file with every setting, and no environment variable
ValidEnviron ==
    [file |-> ConfigFile("https://api.wiz.io/graphql", "id", "secret",
                         "https://auth.app.wiz.io/oauth/token"),
     os |-> Environment(None, None, None, None)]

NoCall == [fn |-> "", args |-> <<>>]
NoFailedMutation == [at |-> 0, lines |-> 0]

\* main() is about to start
InitRun ==
    /\ runNo = 1
    /\ authorized = FALSE
    /\ subs_nodes = Ret(<<>>)
    /\ project_nodes = Ret(<<>>)
    /\ result = NoResult
    /\ nodes = <<>>
    /\ tag_values = {}
    /\ subs_list = <<>>
    /\ idx = 1
    /\ console = <<>>
    /\ mutations = <<>>
    /\ requests = <<>>
    /\ responses = <<>>
    /\ resolverQueries = 0
    /\ failures = 0
    /\ startProjects = projects
    /\ lastAdd = NoAdd
    /\ prev = NoRun
    /\ failedMutation = NoFailedMutation

Init ==
    /\ projects \in InitialProjects
    /\ subscriptions \in InitialSubscriptions
    /\ pageCap \in 1..MaxPageCap
    /\ bulk \in {0, ResolverFirst}
    /\ argv \in ArgvForms
    /\ pc = "request_wiz_api_token"
    /\ InitRun
    /\ environ = ValidEnviron
    /\ config = config_parser(ValidEnviron).v
    /\ call = NoCall
    /\ returned = <<>>

(***************************************************************************)
(* request_wiz_api_token: on a refused exchange the handler returns the    *)
(* exception to main, which goes on without the Authorization header.      *)
(***************************************************************************)
\* the auth endpoint grants no token to a client without id or secret
TokenAnswers(f) ==
    IF Blank(config.wiz_auth_url) THEN {"invalidUrl"}
    ELSE IF Blank(config.wiz_client_id) \/ Blank(config.wiz_client_secret) THEN {"refused"}
    ELSE {"ok"} \cup (IF f < MaxFailures THEN {"refused", "invalidJson"} ELSE {})

request_wiz_api_token(ans) ==
    CASE ans = "ok" -> "token"
      [] ans = "invalidJson" -> generic_exception_handler("ValueError")
      [] ans = "invalidUrl" -> generic_exception_handler("ValueError")
      [] OTHER -> generic_exception_handler("Exception")

RequestToken ==
    /\ pc = "request_wiz_api_token"
    /\ \E ans \in TokenAnswers(failures) :
        LET r == request_wiz_api_token(ans)
        IN /\ authorized' = (r = "token")
           /\ failures' = failures + (IF ans = "ok" THEN 0 ELSE 1)
           /\ pc' = IF r = "exit" THEN "exited" ELSE "subs_first"
    /\ UNCHANGED <<projects, backendVars, argv, runNo, subs_nodes, project_nodes,
                   result, nodes, tag_values, subs_list, idx, console, mutations,
                   requests, responses, resolverQueries, startProjects, lastAdd, prev,
                   failedMutation, startupVars, callVars>>

(***************************************************************************)
(* get_subs_with_tag_key and get_all_wiz_projects: the same loop over the  *)
(* pages of a graphSearch, then one empty query that closes the            *)
(* connection.                                                             *)
(***************************************************************************)
Dataset(which) == IF which = "subs" THEN subscriptions ELSE ProjectNodes
First(which) == IF which = "subs" THEN SubsFirst ELSE ProjectsFirst
AfterFetch(which) == IF which = "subs" THEN "projects_first" ELSE "phase_a_start"

\* the fetcher returns val to main
Return(which, val) ==
    /\ pc' = AfterFetch(which)
    /\ IF which = "subs"
       THEN subs_nodes' = val /\ UNCHANGED project_nodes
       ELSE project_nodes' = val /\ UNCHANGED subs_nodes

\* variant: = instead of +=
Accumulate_overwrites(acc, page_nodes) == page_nodes

\* subs_nodes += result['data']['graphSearch']['nodes']
Accumulate(acc, page_nodes) == acc \o page_nodes

\* variant: the loop does not look at hasNextPage
MorePages_always(page_info) == TRUE

\* variant: the loop is never entered
MorePages_never(page_info) == FALSE

\* while page_info["hasNextPage"]
MorePages(page_info) == page_info.hasNextPage

\* variables['after'] = result['data']['graphSearch']['pageInfo']['endCursor']
NextAfter(res) == res.pageInfo.endCursor

PageRequest(which, after) == [query |-> which, after |-> after]
CloseRequest == [query |-> "", after |-> NoCursor]

\* one page query and what the fetcher does with its answer
FetchPage(which, after, sent, got, acc) ==
    \E ans \in Answers(failures) :
        LET r == FetcherReads(query_wiz_api(ans))
            page == graphSearch(Dataset(which), after, First(which))
        IN /\ requests' = IF ans = "invalidUrl" THEN sent
                           ELSE Append(sent, PageRequest(which, after))
           /\ failures' = failures + Cost(ans)
           /\ CASE r = "data" ->
                    /\ result' = page
                    /\ nodes' = Accumulate(acc, page.nodes)
                    /\ responses' = Append(got, page)
                    /\ pc' = IF MorePages(page.pageInfo)
                             THEN which \o "_page" ELSE which \o "_close"
                    /\ UNCHANGED <<subs_nodes, project_nodes>>
                [] r = "exit" ->
                    /\ pc' = "exited"
                    /\ responses' = got
                    /\ UNCHANGED <<result, nodes, subs_nodes, project_nodes>>
                [] OTHER ->
                    /\ Return(which, ErrVal)
                    /\ responses' = got
                    /\ UNCHANGED <<result, nodes>>

FetchUnchanged ==
    UNCHANGED <<projects, backendVars, argv, runNo, authorized, tag_values, subs_list,
                idx, console, mutations, resolverQueries, startProjects, lastAdd, prev,
                failedMutation, startupVars, callVars>>

FetchFirst(which) ==
    /\ pc = which \o "_first"
    /\ FetchPage(which, NoCursor, <<>>, <<>>, <<>>)
    /\ FetchUnchanged

FetchNext(which) ==
    /\ pc = which \o "_page"
    /\ FetchPage(which, NextAfter(result), requests, responses, nodes)
    /\ FetchUnchanged

\* query_wiz_api(query="", variables={"": ""}, close_connection=True); return nodes
FetchClose(which) ==
    /\ pc = which \o "_close"
    /\ \E ans \in Answers(failures) :
        LET r == query_wiz_api(ans)
        IN /\ requests' = Append(requests, CloseRequest)
           /\ failures' = failures + Cost(ans)
           /\ IF r = "exit"
              THEN pc' = "exited" /\ UNCHANGED <<subs_nodes, project_nodes>>
              ELSE Return(which, Ret(nodes))
    /\ UNCHANGED <<result, nodes, responses>>
    /\ FetchUnchanged

GetSubsFirst == FetchFirst("subs")
GetSubsNext == FetchNext("subs")
GetSubsClose == FetchClose("subs")
GetProjectsFirst == FetchFirst("projects")
GetProjectsNext == FetchNext("projects")
GetProjectsClose == FetchClose("projects")

(***************************************************************************)
(* The pure helpers of main's two loops.                                   *)
(***************************************************************************)
Line(kind, sub, project) == [kind |-> kind, sub |-> sub, project |-> project]

HasTag(node) == tag_key \in DOMAIN node.entities[1].properties.tags

\* tag_value_list once the loop is over: one value per entity, in order
tag_value_list(sn) ==
    [i \in 1..Len(sn) |-> sn[i].entities[1].properties.tags[tag_key]]

\* variant: list(tag_value_list), nothing drops the repeated values
list_set_keeps(seq) == {seq}

\* list(set(seq)): the lists Python may build, each value of seq once, in any order
list_set(seq) ==
    LET S == { seq[i] : i \in 1..Len(seq) }
    IN { l \in [1..Cardinality(S) -> S] : { l[i] : i \in 1..Cardinality(S) } = S }

\* variant: an entity without the tag is skipped
get_subs_tag_value_skipping(sn) ==
    IF sn.isErr THEN ErrVal
    ELSE LET tagged == SelectSeq(sn.v, HasTag)
         IN Ret([subs_list |->
                    [i \in 1..Len(tagged) |->
                        [name |-> tagged[i].entities[1].name, id |-> tagged[i].entities[1].id]
                        @@ (tag_key :> tagged[i].entities[1].properties.tags[tag_key])],
                 tag_value_list |->
                    { tagged[i].entities[1].properties.tags[tag_key] : i \in 1..Len(tagged) }])

\* (subs_list, list(set(tag_value_list))); iterating an exception object or a
\* missing tag raises, and the handler returns the exception
get_subs_tag_value(sn) ==
    IF sn.isErr \/ (\E i \in 1..Len(sn.v) : ~HasTag(sn.v[i]))
    THEN ErrVal
    ELSE Ret([subs_list |->
                 [i \in 1..Len(sn.v) |->
                     [name |-> sn.v[i].entities[1].name, id |-> sn.v[i].entities[1].id]
                     @@ (tag_key :> sn.v[i].entities[1].properties.tags[tag_key])],
              tag_value_list |->
                 { sn.v[i].entities[1].properties.tags[tag_key] : i \in 1..Len(sn.v) }])

\* "True", "False", or the exception the handler returns when project_nodes
\* is not a list
if_project_exist(pn, project_name) ==
    IF pn.isErr THEN generic_exception_handler("Exception")
    ELSE IF \E i \in 1..Len(pn.v) : project_name = pn.v[i].entities[1].name
         THEN "True" ELSE "False"

\* the truth value main's `if` gives to what if_project_exist returned
Truthy(x) == x # "False"

\* variant: the functions are not decorated
Dryable_off(args) == FALSE

\* the decorator of create_project and add_sub_to_project skips the call
Dryable(args) == dryable_set(args)

\* variant: the zero-match branch is taken whatever the command line says
ZeroMatchDry_always(args) == TRUE

\* '--dry-run' in sys.argv and 'yes' in sys.argv, in main's second loop
ZeroMatchDry(args) ==
    (\E i \in 1..Len(args) : args[i] = "--dry-run")
    /\ (\E i \in 1..Len(args) : args[i] = "yes")

\* variant: the filter keeps what the search matched
exact_match_projects_contains(raw, project_name) ==
    SelectSeq(raw, LAMBDA p : Contains(p.name, project_name))

\* the filter of get_project_based_name over the nodes of the answer
exact_match_projects(raw, project_name) ==
    SelectSeq(raw, LAMBDA p : p.name = project_name)

get_project_based_name(project_name, r) ==
    IF r = "data"
    THEN Ret(exact_match_projects(projectsTable(project_name, ResolverFirst),
                                  project_name))
    ELSE ErrVal

\* variant: the list starts empty instead of from the project's links
cloudAccounts_list_empty(project) == <<>>

\* the list main builds from project[0]['cloudAccountLinks']
cloudAccounts_list(project) ==
    [j \in 1..Len(project.cloudAccountLinks) |->
        [cloudAccount |-> project.cloudAccountLinks[j].cloudAccount.id,
         environment |-> project.cloudAccountLinks[j].environment,
         shared |-> project.cloudAccountLinks[j].shared]]

\* variant: a link counts only with the environment and shared values main writes
LinkKey_production(link) ==
    IF link.environment = "PRODUCTION" /\ ~link.shared THEN link.cloudAccount ELSE ""

\* cloudAccount['cloudAccount'], what the membership test compares
LinkKey(link) == link.cloudAccount

\* variant: the membership test never matches
IsAssigned_never(sub_id, list) == FALSE

\* sub['id'] in [cloudAccount['cloudAccount'] for cloudAccount in cloudAccounts_list]
IsAssigned(sub_id, list) == \E j \in 1..Len(list) : LinkKey(list[j]) = sub_id

\* variant: the appended link is marked shared
NewLink_shared(sub_id) == [cloudAccount |-> sub_id, environment |-> "PRODUCTION", shared |-> TRUE]

NewLink(sub_id) == [cloudAccount |-> sub_id, environment |-> "PRODUCTION", shared |-> FALSE]

CreateRequest(name) ==
    [op |-> "createProject", name |-> name, id |-> <<>>, cloudAccountLinks |-> <<>>]
UpdateRequest(id, links) ==
    [op |-> "updateProject", name |-> <<>>, id |-> id, cloudAccountLinks |-> links]

\* variant: create_project prints nothing
CreateLines_silent(r, name) == <<>>

\* what create_project prints once both its queries returned
CreateLines(r, name) ==
    CASE r = "data" -> <<Line("created", "", name), Line("consider", "", name)>>
      [] r = "errors" -> <<Line("cannot_create", "", name), Line("message", "", name)>>
      [] OTHER -> <<>>

(***************************************************************************)
(* A mutation of the script: the mutation query, then the empty query      *)
(* that closes the connection.  applied is the backend after the mutation. *)
(* ok is what the function prints when both queries returned.              *)
(***************************************************************************)
Mutate(f, request, applied, out, lines_of, nextpc) ==
    \E a1 \in Answers(f) :
        LET r1 == query_wiz_api(a1)
        IN /\ mutations' = Append(mutations, request)
           /\ projects' = IF a1 = "ok" THEN applied ELSE projects
           /\ failedMutation' =
                 IF a1 # "ok" /\ failedMutation.at = 0
                 THEN [at |-> Len(mutations) + 1, lines |-> Len(out)]
                 ELSE failedMutation
           /\ IF r1 = "exit"
              THEN /\ pc' = "exited"
                   /\ console' = out
                   /\ failures' = f + Cost(a1)
              ELSE \E a2 \in Answers(f + Cost(a1)) :
                     LET r2 == query_wiz_api(a2)
                     IN /\ failures' = f + Cost(a1) + Cost(a2)
                        /\ IF r2 = "exit"
                           THEN pc' = "exited" /\ console' = out
                           ELSE pc' = nextpc /\ console' = out \o lines_of[r1]

\* create_project(project_name), after main printed out
create_project(project_name, out) ==
    IF Dryable(argv)
    THEN console' = out /\ UNCHANGED <<pc, projects, mutations, failures, failedMutation>>
    ELSE Mutate(failures, CreateRequest(project_name), createProject(projects, project_name), out,
                [r \in {"data", "errors", "err"} |-> CreateLines(r, project_name)],
                "phase_a")

\* add_sub_to_project(project_id, cloudAccounts_list), after main printed out
add_sub_to_project(f, project_id, list, out, nextpc) ==
    IF Dryable(argv)
    THEN /\ console' = out /\ pc' = nextpc /\ failures' = f
         /\ UNCHANGED <<projects, mutations, failedMutation>>
    ELSE Mutate(f, UpdateRequest(project_id, list), updateProject(projects, project_id, list),
                out, [r \in {"data", "errors", "err"} |-> <<>>], nextpc)

(***************************************************************************)
(* main, first loop: one project per tag value.                            *)
(***************************************************************************)
PhaseAStart ==
    /\ pc = "phase_a_start"
    /\ LET g == get_subs_tag_value(subs_nodes)
       IN IF g.isErr
          THEN pc' = "crashed" /\ UNCHANGED tag_values
          ELSE pc' = "phase_a" /\ tag_values' = g.v.tag_value_list
    /\ UNCHANGED <<projects, backendVars, argv, runNo, authorized, subs_nodes,
                   project_nodes, result, nodes, subs_list, idx, console, mutations,
                   requests, responses, resolverQueries, failures, startProjects,
                   lastAdd, prev, failedMutation, startupVars, callVars>>

PhaseA ==
    /\ pc = "phase_a"
    /\ \E tag_value \in tag_values :
        LET project_name == project_name_prefix \o tag_value
        IN /\ tag_values' = tag_values \ {tag_value}
           /\ IF Truthy(if_project_exist(project_nodes, project_name))
              THEN /\ console' = Append(console, Line("exist", "", project_name))
                   /\ UNCHANGED <<pc, projects, mutations, failures, failedMutation>>
              ELSE create_project(project_name,
                                  Append(console, Line("creating", "", project_name)))
    /\ UNCHANGED <<backendVars, argv, runNo, authorized, subs_nodes, project_nodes,
                   result, nodes, subs_list, idx, requests, responses, resolverQueries,
                   startProjects, lastAdd, prev, startupVars, callVars>>

(***************************************************************************)
(* main, second loop: one subscription after the other.                    *)
(***************************************************************************)
PhaseBStart ==
    /\ pc = "phase_a"
    /\ tag_values = {}
    /\ LET g == get_subs_tag_value(subs_nodes)
       IN IF g.isErr
          THEN pc' = "crashed" /\ UNCHANGED subs_list
          ELSE /\ subs_list' = g.v.subs_list
               /\ pc' = IF g.v.subs_list = <<>> THEN "done" ELSE "phase_b"
    /\ idx' = 1
    /\ UNCHANGED <<projects, backendVars, argv, runNo, authorized, subs_nodes,
                   project_nodes, result, nodes, tag_values, console, mutations,
                   requests, responses, resolverQueries, failures, startProjects,
                   lastAdd, prev, failedMutation, startupVars, callVars>>

NextSub == IF idx + 1 > Len(subs_list) THEN "done" ELSE "phase_b"

\* the body of the loop once get_project_based_name returned project
Assign(f, sub, project_name, project) ==
    IF project.isErr
    THEN /\ pc' = "crashed"
         /\ failures' = f
         /\ UNCHANGED <<projects, console, mutations, lastAdd, idx, failedMutation>>
    ELSE IF Len(project.v) = 0 /\ ZeroMatchDry(argv)
    THEN /\ console' = Append(console, Line("adding", sub.name, project_name))
         /\ pc' = NextSub
         /\ idx' = idx + 1
         /\ failures' = f
         /\ UNCHANGED <<projects, mutations, lastAdd, failedMutation>>
    ELSE IF Len(project.v) = 0
    THEN /\ pc' = "crashed"
         /\ failures' = f
         /\ UNCHANGED <<projects, console, mutations, lastAdd, idx, failedMutation>>
    ELSE LET list == cloudAccounts_list(project.v[1])
         IN IF IsAssigned(sub.id, list)
            THEN /\ console' = Append(console, Line("already", sub.name, project_name))
                 /\ pc' = NextSub
                 /\ idx' = idx + 1
                 /\ failures' = f
                 /\ UNCHANGED <<projects, mutations, lastAdd, failedMutation>>
            ELSE /\ lastAdd' = [called |-> TRUE, sub_id |-> sub.id,
                                project_id |-> project.v[1].id,
                                resolved |-> project.v[1].cloudAccountLinks,
                                payload |-> Append(list, NewLink(sub.id))]
                 /\ idx' = idx + 1
                 /\ add_sub_to_project(f, project.v[1].id, Append(list, NewLink(sub.id)),
                        Append(console, Line("adding", sub.name, project_name)), NextSub)

PhaseB ==
    /\ pc = "phase_b"
    /\ LET sub == subs_list[idx]
           project_name == project_name_prefix \o sub[tag_key]
       IN \E a0 \in Answers(failures) :
            LET r0 == query_wiz_api(a0)
            IN /\ resolverQueries' = resolverQueries + 1
               /\ IF r0 = "exit"
                  THEN /\ pc' = "exited"
                       /\ failures' = failures + Cost(a0)
                       /\ UNCHANGED <<projects, console, mutations, lastAdd, idx, failedMutation>>
                  ELSE Assign(failures + Cost(a0), sub, project_name,
                              get_project_based_name(project_name, r0))
    /\ UNCHANGED <<backendVars, argv, runNo, authorized, subs_nodes, project_nodes,
                   result, nodes, tag_values, subs_list, requests, responses,
                   startProjects, prev, startupVars, callVars>>

(***************************************************************************)
(* The script is run again after a run that reached the end of main.       *)
(***************************************************************************)
Restart ==
    /\ pc = "done"
    /\ runNo < MaxRuns
    /\ runNo' = runNo + 1
    /\ argv' \in ArgvForms
    /\ prev' = [ran |-> TRUE, dry |-> dryable_set(argv),
                clean |-> failures = prev.failures, console |-> console,
                failures |-> failures, mutations |-> mutations]
    /\ pc' = "request_wiz_api_token"
    /\ authorized' = FALSE
    /\ subs_nodes' = Ret(<<>>)
    /\ project_nodes' = Ret(<<>>)
    /\ result' = NoResult
    /\ nodes' = <<>>
    /\ tag_values' = {}
    /\ subs_list' = <<>>
    /\ idx' = 1
    /\ console' = <<>>
    /\ mutations' = <<>>
    /\ requests' = <<>>
    /\ responses' = <<>>
    /\ resolverQueries' = 0
    /\ startProjects' = projects
    /\ lastAdd' = NoAdd
    /\ failedMutation' = NoFailedMutation
    /\ UNCHANGED <<projects, backendVars, failures, startupVars, callVars>>

(***************************************************************************)
(* The same script against a backend whose tag filter is not reliable.     *)
(***************************************************************************)
InitUntagged ==
    /\ projects \in InitialAlpha
    /\ subscriptions \in SubscriptionsAnyTags
    /\ pageCap \in 1..MaxPageCap
    /\ bulk = 0
    /\ argv \in ArgvForms
    /\ pc = "request_wiz_api_token"
    /\ InitRun
    /\ environ = ValidEnviron
    /\ config = config_parser(ValidEnviron).v
    /\ call = NoCall
    /\ returned = <<>>

(***************************************************************************)
(* The start of the script on any config file and environment: the         *)
(* module-level call of config_parser, then main up to its first query.    *)
(***************************************************************************)
ApiUrl == "https://api.wiz.io/graphql"
AuthUrl == "https://auth.app.wiz.io/oauth/token"

Files ==
    {NoFile} \cup { ConfigFile(ApiUrl, i, s, AuthUrl) : i \in {"", "id"}, s \in {"", "secret"} }
Environments ==
    { Environment(a, i, s, u) : a \in {None, ApiUrl}, i \in {None, "", "id"},
                                s \in {None, "", "secret"}, u \in {None, AuthUrl} }

InitStartup ==
    /\ projects = <<>>
    /\ subscriptions = <<Node(SubEntity(1, <<"alpha">>))>>
    /\ pageCap = 1
    /\ bulk = 0
    /\ argv = <<"--dry-run", "no">>
    /\ pc = "config_parser"
    /\ InitRun
    /\ environ \in { [file |-> f, os |-> e] : f \in Files, e \in Environments }
    /\ config = Settings("", "", "", "")
    /\ call = NoCall
    /\ returned = <<>>

\* (WIZ_API_URL, WIZ_CLIENT_ID, WIZ_CLIENT_SECRET, WIZ_AUTH_URL) = config_parser()
ConfigParser ==
    /\ pc = "config_parser"
    /\ LET r == config_parser(environ)
       IN /\ config' = r.v
          /\ pc' = IF r.exited THEN "exited" ELSE "request_wiz_api_token"
    /\ UNCHANGED <<runVars, environ, callVars>>

StartupNext ==
    \/ ConfigParser
    \/ RequestToken
    \/ GetSubsFirst

(***************************************************************************)
(* The two pure helpers called on their own: the resolver's filter on any  *)
(* answer of the projects search, get_subs_tag_value on any list of tagged *)
(* entities.                                                               *)
(***************************************************************************)
SeqsUpTo(S, n) == UNION { [1..k -> S] : k \in 0..n }

\* projects a search may list: two entries named alike, names that only
\* contain the name asked for
SearchPool ==
    { Proj(AlphaName, <<>>),
      Proj(AlphaName, <<Link("s1", "PRODUCTION", FALSE)>>),
      Proj(AlphaName \o <<"bet">>, <<Link(ForeignAccount, "STAGING", FALSE)>>),
      Proj(<<"old-">> \o AlphaName, <<>>) }

RawResults(project_name) ==
    SeqsUpTo({ p \in SearchPool : Contains(p.name, project_name) }, MaxRaw)

ResolverCalls ==
    UNION { { [fn |-> "get_project_based_name", args |-> <<project_name, raw>>]
              : raw \in RawResults(project_name) }
            : project_name \in {AlphaName, AlphaName \o <<"bet">>} }

TaggedLists ==
    UNION { { [i \in 1..n |-> Node(SubEntity(i, t[i]))] : t \in [1..n -> TagValues] }
            : n \in 0..MaxEntities }

AggregatorCalls == { [fn |-> "get_subs_tag_value", args |-> <<sn>>] : sn \in TaggedLists }

InitFunctions ==
    /\ projects = <<>>
    /\ subscriptions = <<>>
    /\ pageCap = 1
    /\ bulk = 0
    /\ argv = <<>>
    /\ pc = "call"
    /\ InitRun
    /\ environ = ValidEnviron
    /\ config = config_parser(ValidEnviron).v
    /\ call \in ResolverCalls \cup AggregatorCalls
    /\ returned = <<>>

\* exact_match_projects of get_project_based_name, from the nodes of the answer
ResolveExact ==
    /\ pc = "call"
    /\ call.fn = "get_project_based_name"
    /\ returned' = exact_match_projects(call.args[2], call.args[1])
    /\ pc' = "returned"
    /\ UNCHANGED <<runVars, startupVars, call>>

\* get_subs_tag_value(subs_nodes)
TagAggregate ==
    /\ pc = "call"
    /\ call.fn = "get_subs_tag_value"
    /\ \E l \in list_set(tag_value_list(call.args[1])) :
          returned' = [subs_list |-> get_subs_tag_value(Ret(call.args[1])).v.subs_list,
                       tag_value_list |-> l]
    /\ pc' = "returned"
    /\ UNCHANGED <<runVars, startupVars, call>>

FunctionsNext ==
    \/ ResolveExact
    \/ TagAggregate

(***************************************************************************)
(* The runs whose progress is checked: any subscriptions and page size, on *)
(* a backend that holds the project of one tag value.                      *)
(***************************************************************************)
InitLive ==
    /\ projects = <<Proj(AlphaName, <<Link(ForeignAccount, "DEVELOPMENT", TRUE)>>)>>
    /\ subscriptions \in InitialSubscriptions
    /\ pageCap \in 1..MaxPageCap
    /\ bulk = 0
    /\ argv \in ArgvForms
    /\ pc = "request_wiz_api_token"
    /\ InitRun
    /\ environ = ValidEnviron
    /\ config = config_parser(ValidEnviron).v
    /\ call = NoCall
    /\ returned = <<>>

(***************************************************************************)
(* The first run is started with any command line the parser accepts, on a *)
(* backend that holds no project yet or the project of one tag value.      *)
(***************************************************************************)
InitArgv ==
    /\ projects \in InitialAlpha
    /\ subscriptions \in InitialSubscriptions
    /\ pageCap \in 1..MaxPageCap
    /\ bulk = 0
    /\ argv \in CommandLines
    /\ pc = "request_wiz_api_token"
    /\ InitRun
    /\ environ = ValidEnviron
    /\ config = config_parser(ValidEnviron).v
    /\ call = NoCall
    /\ returned = <<>>

Next ==
    \/ RequestToken
    \/ GetSubsFirst
    \/ GetSubsNext
    \/ GetSubsClose
    \/ GetProjectsFirst
    \/ GetProjectsNext
    \/ GetProjectsClose
    \/ PhaseAStart
    \/ PhaseA
    \/ PhaseBStart
    \/ PhaseB
    \/ Restart

Spec == Init /\ [][Next]_vars

UntaggedSpec == InitUntagged /\ [][Next]_vars

StartupSpec == InitStartup /\ [][StartupNext]_vars

FunctionsSpec == InitFunctions /\ [][FunctionsNext]_vars

\* main is one sequential process and every request is answered: a step that
\* can be taken is taken
LiveSpec == InitLive /\ [][Next]_vars /\ WF_vars(Next)

ArgvSpec == InitArgv /\ [][Next]_vars

TypeOK ==
    /\ pc \in {"request_wiz_api_token", "subs_first", "subs_page", "subs_close",
               "projects_first", "projects_page", "projects_close", "phase_a_start",
               "phase_a", "phase_b", "done", "crashed", "exited"}
    /\ runNo \in 1..MaxRuns
    /\ failures \in 0..MaxFailures
    /\ idx \in 1..(Len(subs_list) + 1)

(***************************************************************************)
(* Vocabulary of the properties.                                           *)
(***************************************************************************)
Dry == dryable_set(argv)
\* no backend call of the current run failed
Clean == failures = prev.failures
Ended == pc \in {"done", "crashed", "exited"}

Range(seq) == { seq[i] : i \in 1..Len(seq) }
Last(seq) == seq[Len(seq)]

IsUpdate(m) == m.op = "updateProject"
IsCreate(m) == m.op = "createProject"
Updates(log) == SelectSeq(log, IsUpdate)
Creates(log) == SelectSeq(log, IsCreate)

\* the decisions of the first loop (their order is that of a Python set) and
\* of the second loop (in the order of the subscriptions)
PhaseADecisions(out) == { l \in Range(out) : l.kind \in {"exist", "creating"} }
PhaseBDecisions(out) == SelectSeq(out, LAMBDA l : l.kind \in {"adding", "already"})

\* the tagged subscriptions main fetched, and their tag values
Fetched == IF subs_nodes.isErr THEN <<>> ELSE subs_nodes.v
TagOf(node) == node.entities[1].properties.tags[tag_key]
IdOf(node) == node.entities[1].id
NameOf(node) == node.entities[1].name
ObservedTags == { TagOf(Fetched[i]) : i \in 1..Len(Fetched) }

LinkedIn(ps, project_name, acct) ==
    \E i \in 1..Len(ps) :
        /\ ps[i].name = project_name
        /\ \E j \in 1..Len(ps[i].cloudAccountLinks) :
              ps[i].cloudAccountLinks[j].cloudAccount.id = acct

ProjectExists(ps, project_name) == \E i \in 1..Len(ps) : ps[i].name = project_name

(***************************************************************************)
(* Properties.                                                             *)
(***************************************************************************)
NoProjectsAtStart == startProjects = <<>> /\ bulk = 0

AllLinked ==
    \A i \in 1..Len(Fetched) :
        LinkedIn(projects, project_name_prefix \o TagOf(Fetched[i]), IdOf(Fetched[i]))

\* the mutations are one createProject per observed tag value, then one
\* updateProject per fetched subscription, in the order of the subscriptions
CallsFromScratch ==
    LET n == Cardinality(ObservedTags)
        m == Len(Fetched)
    IN /\ Len(mutations) = n + m
       /\ \A i \in 1..n : IsCreate(mutations[i])
       /\ { mutations[i].name : i \in 1..n }
             = { project_name_prefix \o v : v \in ObservedTags }
       /\ \A j \in 1..m :
            /\ IsUpdate(mutations[n + j])
            /\ Last(mutations[n + j].cloudAccountLinks).cloudAccount = IdOf(Fetched[j])

\* C1: once a non-dry-run run in which no backend call failed has ended, every
\* fetched subscription s with tag value v is linked in a project named
\* prefix+v; and when the run started from no projects its mutations are one
\* create per distinct tag value followed by one link update per subscription.
C1_EndToEnd ==
    (Ended /\ ~Dry /\ Clean) => (AllLinked /\ (NoProjectsAtStart => CallsFromScratch))

Superset(old, new) == \A l \in Range(old) : l \in Range(new)

\* C2: in every state, every project of the start of the run is still there and
\* its cloudAccountLinks hold every link they held at the start of the run.
C2_AdditiveOnly ==
    \A i \in 1..Len(startProjects) :
        \E k \in 1..Len(projects) :
            /\ projects[k].id = startProjects[i].id
            /\ Superset(startProjects[i].cloudAccountLinks, projects[k].cloudAccountLinks)

\* two subscriptions were added one after the other to a project that had
\* links when the run started
C2_Witness ==
    /\ Len(Updates(mutations)) >= 2
    /\ Updates(mutations)[1].id = Updates(mutations)[2].id
    /\ \E i \in 1..Len(startProjects) :
          /\ startProjects[i].id = Updates(mutations)[1].id
          /\ startProjects[i].cloudAccountLinks # <<>>
    /\ C2_AdditiveOnly

\* C3: whenever add_sub_to_project was called for subscription s on a project
\* whose links the resolver reported as L, the payload is L entry by entry
\* (cloudAccountId, environment, shared) followed by the one entry
\* {s.id, PRODUCTION, false}; s.id does not occur in L, so the payload holds
\* one entry for s; the request sent is that payload for that project, and L
\* is what the backend held for the project.
C3_PayloadIsOldPlusOne ==
    lastAdd.called =>
        LET L == lastAdd.resolved
            P == lastAdd.payload
        IN /\ Len(P) = Len(L) + 1
           /\ \A j \in 1..Len(L) :
                /\ P[j].cloudAccount = L[j].cloudAccount.id
                /\ P[j].environment = L[j].environment
                /\ P[j].shared = L[j].shared
                /\ L[j].cloudAccount.id # lastAdd.sub_id
           /\ P[Len(P)] = [cloudAccount |-> lastAdd.sub_id,
                           environment |-> "PRODUCTION", shared |-> FALSE]
           /\ Cardinality({ j \in 1..Len(P) : P[j].cloudAccount = lastAdd.sub_id }) = 1
           /\ ~Dry => /\ mutations # <<>>
                      /\ Last(mutations) = UpdateRequest(lastAdd.project_id, P)
           /\ \E k \in 1..Len(projects) :
                /\ projects[k].id = lastAdd.project_id
                /\ Len(projects[k].cloudAccountLinks) >= Len(L)
                /\ SubSeq(projects[k].cloudAccountLinks, 1, Len(L)) = L

\* the mutation was sent for a project that already had two links
C3_Witness == lastAdd.called /\ ~Dry /\ Len(lastAdd.resolved) >= 2

\* C4: in a run that follows a non-dry-run run which reached the end of main
\* with no failed call, no updateProject is sent, and when the run reaches the
\* end of main it has reported every subscription as already assigned.
C4_SecondRunSendsNoUpdate ==
    (prev.ran /\ ~prev.dry /\ prev.clean) =>
        /\ Updates(mutations) = <<>>
        /\ pc = "done" =>
             PhaseBDecisions(console) =
                [i \in 1..Len(Fetched) |->
                    Line("already", NameOf(Fetched[i]),
                         project_name_prefix \o TagOf(Fetched[i]))]

\* the second, non-dry-run run ended after a first run that sent two updates
C4_Witness ==
    /\ prev.ran /\ ~prev.dry /\ prev.clean
    /\ Len(Updates(prev.mutations)) >= 2
    /\ ~Dry
    /\ pc = "done"

\* C5: with the dry-run flag set no mutation is ever sent and the projects stay
\* what they were at the start of the run; a dry run that reaches the end of
\* main has fetched the subscriptions, fetched the projects and sent one
\* resolver query per fetched subscription.
C5_DryRunSendsNoMutation ==
    Dry =>
        /\ mutations = <<>>
        /\ projects = startProjects
        /\ pc = "done" =>
            /\ ~subs_nodes.isErr
            /\ requests # <<>>
            /\ requests[1] = PageRequest("projects", NoCursor)
            /\ resolverQueries = Len(Fetched)

\* a dry run ended that met a missing project, a subscription to add and a
\* subscription already assigned
C5_Witness ==
    /\ Dry /\ Clean /\ pc = "done"
    /\ (\E l \in Range(console) : l.kind = "creating")
    /\ (\E l \in Range(console) : l.kind = "adding")
    /\ (\E l \in Range(console) : l.kind = "already")

\* C6: a non-dry-run run with no failed call, started on the backend a dry run
\* with no failed call left unchanged, ends with the decisions the dry run
\* reported: the same exists/create decision per tag value and the same
\* adding/already-assigned decisions in the order of the subscriptions.
C6_DryRunReportsSameDecisions ==
    (prev.ran /\ prev.dry /\ prev.clean /\ ~Dry /\ Clean /\ Ended) =>
        /\ PhaseADecisions(console) = PhaseADecisions(prev.console)
        /\ PhaseBDecisions(console) = PhaseBDecisions(prev.console)

\* C7: once an updateProject has been sent, the first loop has visited every
\* tag value, a project prefix+v exists in the backend for every observed tag
\* value v, and no createProject was sent after an updateProject.
C7_ProjectsExistBeforeUpdates ==
    Updates(mutations) # <<>> =>
        /\ tag_values = {}
        /\ \A v \in ObservedTags : ProjectExists(projects, project_name_prefix \o v)
        /\ \A i, j \in 1..Len(mutations) :
              (IsUpdate(mutations[i]) /\ IsCreate(mutations[j])) => j < i

\* the fetcher `which` has just returned a list to main
Returned(which) ==
    IF which = "subs"
    THEN pc = "projects_first" /\ ~subs_nodes.isErr
    ELSE pc = "phase_a_start" /\ ~project_nodes.isErr
ReturnedValue(which) == IF which = "subs" THEN subs_nodes.v ELSE project_nodes.v
BackendPages(which) == PagesFrom(Dataset(which), NoCursor, First(which))

RECURSIVE SumOfSizes(_)
SumOfSizes(pages) ==
    IF pages = <<>> THEN 0 ELSE Len(Head(pages).nodes) + SumOfSizes(Tail(pages))

\* C8: when a fetcher returns, with k the number of pages the backend serves,
\* it received exactly these pages (the last one alone with hasNextPage
\* false), it returns the concatenation of their nodes in page order, n1+...+nk
\* nodes, which is the whole data; its first page request carried no cursor
\* and each later page request carried the endCursor of the answer before it.
C8_FetcherReturnsAllPages ==
    \A which \in {"subs", "projects"} :
        Returned(which) =>
            LET k == Len(responses)
            IN /\ responses = BackendPages(which)
               /\ \A i \in 1..k : responses[i].pageInfo.hasNextPage = (i < k)
               /\ ReturnedValue(which) = Flatten([i \in 1..k |-> responses[i].nodes])
               /\ Len(ReturnedValue(which)) = SumOfSizes(responses)
               /\ ReturnedValue(which) = Dataset(which)
               /\ Len(requests) >= k
               /\ requests[1] = PageRequest(which, NoCursor)
               /\ \A i \in 2..k :
                    requests[i] = PageRequest(which, responses[i - 1].pageInfo.endCursor)

\* the subscription fetcher returned what it gathered from two pages
C8_Witness ==
    /\ Returned("subs")
    /\ Len(responses) = 2
    /\ Len(responses[1].nodes) >= 1 /\ Len(responses[2].nodes) >= 1
    /\ subs_nodes.v = subscriptions

\* C9 as stated: a fetcher that returns has sent exactly k requests, k being
\* the number of pages the backend serves.
C9_ExactlyKRequests ==
    \A which \in {"subs", "projects"} :
        Returned(which) => Len(requests) = Len(BackendPages(which))

\* C9 as amended: a fetcher that returns has sent exactly k page requests and
\* after them exactly one more request, the empty query that closes the
\* connection: k + 1 requests.
C9_KPageRequestsAndOneClose ==
    \A which \in {"subs", "projects"} :
        Returned(which) =>
            LET k == Len(BackendPages(which))
            IN /\ Len(requests) = k + 1
               /\ \A i \in 1..k : requests[i].query = which
               /\ requests[k + 1] = CloseRequest

\* the project fetcher returned from a backend that serves two pages
C9_Witness ==
    /\ Returned("projects")
    /\ Len(BackendPages("projects")) = 2
    /\ Len(requests) = 3

\* C10: once a fetcher has returned on a failed request, no decision of the
\* first or of the second loop is reported and no mutation is sent.
C10_FetchFailureAborts ==
    (subs_nodes.isErr \/ project_nodes.isErr) =>
        /\ PhaseADecisions(console) = {}
        /\ PhaseBDecisions(console) = <<>>
        /\ mutations = <<>>

DecisionKinds == {"exist", "creating", "adding", "already"}

\* C11: once a createProject or an updateProject was not answered "ok" (the
\* backend answered with errors, or the request raised), the run has ended, no
\* mutation was sent after that one and no decision of either loop was
\* reported after it.
C11_MutationFailureAborts ==
    failedMutation.at # 0 =>
        /\ pc \in {"crashed", "exited"}
        /\ Len(mutations) = failedMutation.at
        /\ \A i \in (failedMutation.lines + 1)..Len(console) :
              console[i].kind \notin DecisionKinds

\* what the resolver returns for project_name when its query is answered
ResolvedNow(project_name) ==
    exact_match_projects(projectsTable(project_name, ResolverFirst), project_name)

Terminal == pc \in {"crashed", "exited"}

\* C12: in a non-dry-run, a step of the second loop for which the resolver
\* has no exact match ends the run (by the crash when the query was answered),
\* sends no mutation and leaves the projects, the earlier mutations included,
\* as they are; and no step is ever taken after the run has ended this way.
C12_ZeroMatchIsFatal ==
    [][ /\ ~Terminal
        /\ (pc = "phase_b" /\ ~Dry
             /\ ResolvedNow(project_name_prefix \o subs_list[idx][tag_key]) = <<>>)
            => /\ pc' \in {"crashed", "exited"}
               /\ failures' = failures => pc' = "crashed"
               /\ mutations' = mutations
               /\ projects' = projects ]_vars

\* a non-dry-run run in which every call was answered crashed on its second
\* subscription, after the updateProject of the first one was applied
C12_Witness ==
    /\ pc = "crashed" /\ ~Dry /\ Clean /\ authorized
    /\ idx = 2
    /\ ResolvedNow(project_name_prefix \o subs_list[idx][tag_key]) = <<>>
    /\ Len(Updates(mutations)) = 1
    /\ \E k \in 1..Len(projects) :
          /\ projects[k].id = mutations[Len(mutations)].id
          /\ \E j \in 1..Len(projects[k].cloudAccountLinks) :
                projects[k].cloudAccountLinks[j].cloudAccount.id = subs_list[1].id

\* C13: while the fetched subscriptions hold an entity without tag_key, main
\* is at most at the start of its first loop or has ended: it has reported no
\* decision, has sent no mutation and has sent no resolver query; in
\* particular it never enters a loop, so the step after the fetchers is the
\* end of the run.
C13_UntaggedIsFatal ==
    (\E i \in 1..Len(Fetched) : ~HasTag(Fetched[i])) =>
        /\ pc \in {"projects_first", "projects_page", "projects_close",
                   "phase_a_start", "crashed", "exited"}
        /\ console = <<>>
        /\ mutations = <<>>
        /\ resolverQueries = 0
        /\ projects = startProjects

\* a non-dry-run run fetched a tagged and an untagged subscription and the
\* projects, and crashed
C13_Witness ==
    /\ pc = "crashed" /\ ~Dry /\ Clean /\ authorized
    /\ ~project_nodes.isErr
    /\ \E i, j \in 1..Len(Fetched) : HasTag(Fetched[i]) /\ ~HasTag(Fetched[j])

CredentialsMissing ==
    Blank(config.wiz_client_id) \/ Blank(config.wiz_client_secret)

\* C14: once the configuration is loaded with the client id or the client
\* secret missing or blank, the process has ended or is at most at its token
\* request: main never reaches its first fetch and no query is sent.
C14_MissingCredentialsStopAtStartup ==
    (pc # "config_parser" /\ CredentialsMissing) =>
        /\ pc \in {"request_wiz_api_token", "exited"}
        /\ requests = <<>>

ExactIndexes(raw, project_name) == { i \in 1..Len(raw) : raw[i].name = project_name }

\* the k-th smallest element of a set of numbers
Nth(S, k) == CHOOSE i \in S : Cardinality({ j \in S : j < i }) = k - 1

\* C15: the resolver's filter, given the results raw of the search for a
\* name, returns the entries of raw whose name equals that name, all of them
\* (an entry listed twice is returned twice), in the order of raw, each as it
\* is in raw (its cloudAccountLinks included), and no entry whose name only
\* contains the name.
C15_ResolverKeepsExactMatchesOnly ==
    (pc = "returned" /\ call.fn = "get_project_based_name") =>
        LET project_name == call.args[1]
            raw == call.args[2]
            keep == ExactIndexes(raw, project_name)
        IN /\ Len(returned) = Cardinality(keep)
           /\ \A k \in 1..Len(returned) :
                /\ returned[k] = raw[Nth(keep, k)]
                /\ returned[k].name = project_name
                /\ returned[k].cloudAccountLinks = raw[Nth(keep, k)].cloudAccountLinks

\* the search listed the project, a project whose name only contains the
\* name, and the project again: the filter returned the two entries
C15_Witness ==
    /\ pc = "returned" /\ call.fn = "get_project_based_name"
    /\ Len(call.args[2]) = 3
    /\ call.args[2][1].name = call.args[1]
    /\ call.args[2][1].cloudAccountLinks # <<>>
    /\ call.args[2][2].name # call.args[1]
    /\ call.args[2][3] = call.args[2][1]
    /\ returned = <<call.args[2][1], call.args[2][3]>>

\* C16: get_subs_tag_value, given entities that all carry tag_key, returns
\* one record per entity, in the order of the entities, holding the entity's
\* name, its id and its tag value under tag_key, and a list of tag values
\* that holds every value of the entities, no other value, and no value twice.
C16_AggregatorRecordsAndDistinctValues ==
    (pc = "returned" /\ call.fn = "get_subs_tag_value") =>
        LET sn == call.args[1]
            records == returned.subs_list
            values == returned.tag_value_list
        IN /\ Len(records) = Len(sn)
           /\ \A i \in 1..Len(sn) :
                /\ DOMAIN records[i] = {"name", "id", tag_key}
                /\ records[i].name = sn[i].entities[1].name
                /\ records[i].id = sn[i].entities[1].id
                /\ records[i][tag_key] = sn[i].entities[1].properties.tags[tag_key]
           /\ { values[j] : j \in 1..Len(values) }
                 = { sn[i].entities[1].properties.tags[tag_key] : i \in 1..Len(sn) }
           /\ \A j, k \in 1..Len(values) : values[j] = values[k] => j = k

\* three entities, the first two with the same tag value: three records,
\* two values
C16_Witness ==
    /\ pc = "returned" /\ call.fn = "get_subs_tag_value"
    /\ Len(call.args[1]) = 3
    /\ call.args[1][1].entities[1].properties.tags[tag_key]
          = call.args[1][2].entities[1].properties.tags[tag_key]
    /\ call.args[1][3].entities[1].properties.tags[tag_key]
          # call.args[1][1].entities[1].properties.tags[tag_key]
    /\ Len(returned.subs_list) = 3
    /\ Len(returned.tag_value_list) = 2

\* the first loop has started (each of its steps prints a line)
LoopsStarted == pc \in {"phase_a", "phase_b", "done"} \/ (Terminal /\ console # <<>>)

\* the tag values the first loop has visited
Visited == ObservedTags \ tag_values

\* the run of the scenario: two subscriptions of two distinct tag values, no
\* project at the start, every call answered, main at its end
TwoSubsTwoTagsFromScratch ==
    /\ pc = "done" /\ Clean /\ NoProjectsAtStart
    /\ Len(Fetched) = 2
    /\ TagOf(Fetched[1]) # TagOf(Fetched[2])

CreateKinds == {"created", "consider", "cannot_create", "message"}

SnapshotHolds(project_name) ==
    /\ ~project_nodes.isErr
    /\ \E i \in 1..Len(project_nodes.v) : project_nodes.v[i].entities[1].name = project_name

CreatesOf(project_name) ==
    { j \in 1..Len(mutations) : IsCreate(mutations[j]) /\ mutations[j].name = project_name }

\* C18: every visited tag value v has exactly one existence outcome on the
\* console; it is "exist" exactly when the snapshot fetched before the loop
\* holds a project named prefix+v; in a non-dry-run one createProject for
\* prefix+v was sent when the snapshot holds none and no createProject
\* otherwise (none at all in a dry run); a tag value not visited yet has no
\* createProject; and the first loop sends no projects query of its own: the
\* requests are those of the project fetcher and no resolver query was sent
\* while the loop runs.
C18_ExistenceFromSnapshot ==
    LoopsStarted =>
        /\ \A v \in Visited :
              LET project_name == project_name_prefix \o v
                  outcomes == { i \in 1..Len(console) :
                                  /\ console[i].kind \in {"exist", "creating"}
                                  /\ console[i].project = project_name }
              IN /\ Cardinality(outcomes) = 1
                 /\ (\E i \in outcomes : console[i].kind = "exist")
                       <=> SnapshotHolds(project_name)
                 /\ Cardinality(CreatesOf(project_name))
                       = (IF ~Dry /\ ~SnapshotHolds(project_name) THEN 1 ELSE 0)
        /\ \A v \in ObservedTags \ Visited : CreatesOf(project_name_prefix \o v) = {}
        /\ pc = "phase_a" =>
              /\ resolverQueries = 0
              /\ \A i \in 1..Len(requests) : requests[i].query \in {"projects", ""}

\* C19: a step of the second loop that decides on a subscription for which
\* the resolver has a project reports "already assigned", sends no mutation
\* and changes no project when a link of that project has the subscription's
\* id as its cloud account id, whatever its environment and shared values;
\* otherwise it reports "adding" and, in a non-dry-run, sends exactly one
\* updateProject, for that project, whose last link is the subscription's;
\* a step of the second loop that does not decide prints and sends nothing.
C19_MembershipByAccountIdOnly ==
    [][ (pc = "phase_b"
         /\ ResolvedNow(project_name_prefix \o subs_list[idx][tag_key]) # <<>>) =>
          LET sub == subs_list[idx]
              project_name == project_name_prefix \o sub[tag_key]
              project == ResolvedNow(project_name)[1]
              linked == \E j \in 1..Len(project.cloudAccountLinks) :
                           project.cloudAccountLinks[j].cloudAccount.id = sub.id
          IN IF idx' # idx + 1
             THEN console' = console /\ mutations' = mutations /\ projects' = projects
             ELSE IF linked
             THEN /\ console' = Append(console, Line("already", sub.name, project_name))
                  /\ mutations' = mutations
                  /\ projects' = projects
             ELSE /\ console' = Append(console, Line("adding", sub.name, project_name))
                  /\ IF Dry
                     THEN mutations' = mutations
                     ELSE /\ Len(mutations') = Len(mutations) + 1
                          /\ SubSeq(mutations', 1, Len(mutations)) = mutations
                          /\ IsUpdate(Last(mutations'))
                          /\ Last(mutations').id = project.id
                          /\ Last(Last(mutations').cloudAccountLinks).cloudAccount = sub.id
      ]_vars

\* a non-dry-run run has just reported as already assigned a subscription
\* that its project links as a shared DEVELOPMENT account, and sent nothing
C19_Witness ==
    /\ pc \in {"phase_b", "done"} /\ ~Dry /\ Clean
    /\ idx >= 2
    /\ Last(console) = Line("already", subs_list[idx - 1].name,
                            project_name_prefix \o subs_list[idx - 1][tag_key])
    /\ \E k \in 1..Len(projects) :
          /\ projects[k].name = project_name_prefix \o subs_list[idx - 1][tag_key]
          /\ \E j \in 1..Len(projects[k].cloudAccountLinks) :
                projects[k].cloudAccountLinks[j]
                  = Link(subs_list[idx - 1].id, "DEVELOPMENT", TRUE)
    /\ Updates(mutations) = <<>>

PageRequests == SelectSeq(requests, LAMBDA r : r.query # "")

\* the responses of the fetcher that ran last: each but the last announced a
\* next page; a page request is sent only at the start and after a response
\* that announced a next page; the fetcher goes on to its closing query only
\* after a response that announced none
StopsAtLastPage ==
    /\ \A i \in 1..(Len(responses) - 1) : responses[i].pageInfo.hasNextPage
    /\ Len(PageRequests) <= Len(responses) + 1
    /\ (responses # <<>> /\ ~Last(responses).pageInfo.hasNextPage) =>
          Len(PageRequests) = Len(responses)
    /\ pc \in {"subs_close", "projects_close"} =>
          (responses # <<>> /\ ~Last(responses).pageInfo.hasNextPage)

\* no request of a fetcher and no mutation is sent twice, and the resolver is
\* queried at most once per subscription
NothingSentTwice ==
    /\ \A i, j \in 1..Len(requests) : requests[i] = requests[j] => i = j
    /\ \A i, j \in 1..Len(mutations) : mutations[i] = mutations[j] => i = j
    /\ resolverQueries <= Len(subs_list)
    /\ resolverQueries \in {idx - 1, idx}

\* C20: in every state the fetchers' loops have stopped at the first response
\* with hasNextPage false and nothing was sent a second time; and every run
\* that starts reaches the end of main, a crash or an exit (a later run
\* starts only from the end of main, so the end reached is that run's).
C20_LoopsStopAndRunsEnd ==
    /\ [](StopsAtLastPage /\ NothingSentTwice)
    /\ (pc = "request_wiz_api_token") ~> Ended

\* a run ended by a crash after a request failed and after its project
\* fetcher had read two pages
C20_Witness ==
    /\ pc = "crashed" /\ ~Clean
    /\ Len(responses) = 2
    /\ Len(PageRequests) = 2
    /\ ~Last(responses).pageInfo.hasNextPage


(***************************************************************************)
(* The command line and the engine's flag.                                 *)
(***************************************************************************)
\* args.dry_run == 'yes'
ParsedYes == parse_args(argv).dry_run = "yes"

\* C21: on every command line the parser accepts, the flag that makes
\* create_project and add_sub_to_project skip their mutation and the test that
\* selects the zero-match branch of the second loop are on exactly when the
\* parsed value of --dry-run is yes; so a run started with the option set to
\* yes, written "--dry-run yes" or "--dry-run=yes", sends no mutation.
C21_EngineFlagIsParsedOption ==
    parse_args(argv).accepted =>
        /\ Dryable(argv) <=> ParsedYes
        /\ ZeroMatchDry(argv) <=> ParsedYes
        /\ ParsedYes => mutations = <<>>

(***************************************************************************)
(* The token exchange and the calls that follow it.                        *)
(***************************************************************************)
\* the current run has sent a query or a mutation to the API endpoint
SentToBackend == requests # <<>> \/ resolverQueries > 0 \/ mutations # <<>>

\* C22: a query or a mutation is sent only with the Authorization header that
\* a successful token exchange attached; after a token exchange that failed
\* the run has ended, before the first fetch.
C22_NoQueryWithoutAuthorization ==
    /\ SentToBackend => authorized
    /\ (pc # "request_wiz_api_token" /\ ~authorized) => pc = "exited" /\ ~SentToBackend

(***************************************************************************)
(* The resolver and the projects of the backend.                           *)
(***************************************************************************)
\* C23: when the second loop is about to resolve the project of a
\* subscription and the backend holds a project with exactly that name, the
\* resolver's answer is not empty, however many projects the search matches.
C23_ResolverFindsExistingProject ==
    pc = "phase_b" =>
        LET project_name == project_name_prefix \o subs_list[idx][tag_key]
        IN ProjectExists(projects, project_name) => ResolvedNow(project_name) # <<>>

====
